---------------------------- MODULE Spec2Model ----------------------------
(***************************************************************************)
(* Model of matchengine/internals/utilities/task_utils.py: the task        *)
(* handlers of the match engine's worker pool, the asyncio task queue they *)
(* share (put / get / task_done / join), the shared aggregation state and  *)
(* the slice of the document store the handlers read and write.            *)
(*                                                                         *)
(* Scheduling is asyncio's: a handler runs without interruption from one   *)
(* await that really suspends (a store round trip) to the next, so each    *)
(* action below is one such segment.  `await task_q.put(task)` on the      *)
(* unbounded queue never suspends.                                         *)
(***************************************************************************)
EXTENDS Integers, Sequences, FiniteSets, TLC

(* ------------------------------ bounds -------------------------------- *)
NumWorkers == 2      \* size of the worker pool
MaxTasks == 2        \* tasks the driver submits before the run starts
MaxFailures == 1     \* store errors injected in one run
MaxResults == 1      \* match reasons one query returns

Workers == 1..NumWorkers

(* --------------------------- configuration ---------------------------- *)
Protocol == "P001"
TrialMatchCollection == "trial_match_test"
Samples == {"s1", "s2"}
ClinicalIds == {"c1", "c2"}

\* matchengine.config['indices']: collection alias -> desired index keys
ConfigIndices ==
    << [collection |-> "trial_match", desired |-> {"protocol_no", "sample_id"}],
       [collection |-> "patient", desired |-> {"mrn"}] >>

\* clinical_run_log_entries[protocol_no]
ClinicalRunLogEntries == {"c1", "c2"}

(* ------------------------------- tasks --------------------------------- *)
TaskKinds == {"CheckIndicesTask", "QueryTask", "UpdateTask", "RunLogUpdateTask"}

MkTask(kind, id) == [type |-> kind, id |-> id, collection |-> "", index |-> ""]

IndexUpdateTask(collection, index) ==
    [type |-> "IndexUpdateTask", id |-> 0, collection |-> collection, index |-> index]

PoisonPill == [type |-> "PoisonPill", id |-> 0, collection |-> "", index |-> ""]

NoTask == [type |-> "none", id |-> 0, collection |-> "", index |-> ""]

\* what the driver submits: any sequence of 1..MaxTasks tasks, task i has id i
Workloads ==
    UNION { { [i \in 1..n |-> MkTask(f[i], i)] : f \in [1..n -> TaskKinds] }
            : n \in 1..MaxTasks }

(* ------------------------------ errors --------------------------------- *)
\* pymongo.errors: CursorNotFound derives from OperationFailure, not from
\* AutoReconnect, so isinstance(e, AutoReconnect) is false for it.
StoreErrors == {"AutoReconnect", "CursorNotFound", "Other"}

IsAutoReconnect(e) == e = "AutoReconnect"

IsCursorNotFound(e) == e = "CursorNotFound"

\* the errors of a write whose key is already taken, raised by insert_one and
\* by bulk_write: both derive from OperationFailure, neither is an AutoReconnect
DuplicateKeyError == "DuplicateKeyError"

BulkWriteError == "BulkWriteError"

VARIABLES
    task_q,            \* asyncio.Queue: the items waiting
    unfinished_tasks,  \* asyncio.Queue._unfinished_tasks
    join_released,     \* the _finished event has been set for the waiting join()
    stopped,           \* loop.stop() was called / the run was terminated
    exited,            \* matchengine.__exit__ was called
    pc,                \* per worker: where its coroutine is suspended
    cur,               \* per worker: the task it holds
    inv,               \* per worker: record of its handler invocation in progress
    last,              \* the handler invocation that ended most recently
    loc,               \* per worker: locals of run_run_log_update_task
    matches,           \* matchengine.matches[protocol_no][sample_id]
    queue_task_count,  \* matchengine.queue_task_count
    produced,          \* per query task id: documents its successful attempt produced
    indexes,           \* store: collection -> set of index key sequences
    bulk_writes,       \* store: successful trial-match bulk writes
    run_log,           \* store: run-log summary documents of the trial
    ledger,            \* store: clinical id -> its ledger documents (run_history lengths)
    failures,          \* store errors injected so far
    workload,          \* what the driver submitted
    pills_sent         \* the driver has enqueued the poison pills

vars == << task_q, unfinished_tasks, join_released, stopped, exited, pc, cur, inv, last, loc,
           matches, queue_task_count, produced, indexes, bulk_writes, run_log, ledger,
           failures, workload, pills_sent >>

aggVars == << matches, queue_task_count, produced >>
storeVars == << indexes, bulk_writes, run_log, ledger >>

(* ------------------- one handler invocation's record ------------------- *)
\* caught : the exception the handler's except clause caught ("none" if none)
\* escaped: the exception that left the handler ("none" if it returned)
\* log    : the queue / loop calls the invocation made, in order
\* puts   : the tasks it put on the queue, in order
NewInv == [caught |-> "none", log |-> << >>]

\* before any invocation has ended
NoInv == [task |-> NoTask, caught |-> "none", escaped |-> "none", log |-> << >>,
          puts |-> << >>]

NewLoc == [distinct_done |-> FALSE, insert_done |-> FALSE, dont_need_insert |-> {}]

Keys == {Protocol} \X Samples

Init ==
    /\ workload \in Workloads
    /\ task_q = workload
    /\ unfinished_tasks = Len(workload)
    /\ join_released = FALSE
    /\ stopped = FALSE
    /\ exited = FALSE
    /\ pc = [w \in Workers |-> "idle"]
    /\ cur = [w \in Workers |-> NoTask]
    /\ inv = [w \in Workers |-> NewInv]
    /\ last = NoInv
    /\ loc = [w \in Workers |-> NewLoc]
    /\ matches = [k \in Keys |-> << >>]
    /\ queue_task_count = 0
    /\ produced = [i \in 1..Len(workload) |-> << >>]
    /\ indexes = [c \in {"patient", TrialMatchCollection} |->
                    IF c = "patient" THEN { <<"_id">>, <<"mrn">> }
                    ELSE { <<"_id">>, <<"protocol_no", "sample_id">> }]
    /\ bulk_writes = 0
    /\ run_log = 0
    /\ ledger = [c \in ClinicalIds |->
                    IF c = "c2" THEN << 0 >> ELSE << >>]
    /\ failures = 0
    /\ pills_sent = FALSE

(* ----------------- the handler's view of queue and loop ---------------- *)
\* A handler segment threads this record through its calls:
\* q, u, joined = the queue; stop, exit = loop / engine; exc = the exception
\* now propagating ("none"); caught = what the except clause caught;
\* log = the calls made; puts = the tasks put.
Ctx(w) ==
    [q |-> task_q, u |-> unfinished_tasks, joined |-> join_released,
     stop |-> stopped, exit |-> exited, exc |-> "none", caught |-> inv[w].caught,
     log |-> inv[w].log, puts |-> << >>]

\* asyncio.Queue.put_nowait / put on an unbounded queue
Put(h, t, ev) ==
    [h EXCEPT !.q = Append(@, t), !.u = @ + 1, !.log = Append(@, ev),
              !.puts = Append(@, t)]

\* asyncio.Queue.task_done: ValueError when nothing is outstanding, else one
\* less, and the _finished event is set at zero (a waiting join() returns)
TaskDone(h) ==
    IF h.u <= 0
    THEN [h EXCEPT !.exc = "ValueError", !.log = Append(Append(@, "task_done"), "ValueError")]
    ELSE [h EXCEPT !.u = @ - 1,
                   !.joined = @ \/ (h.u - 1 = 0),
                   !.log = Append(@, "task_done")]

\* matchengine.loop.stop()
LoopStop(h) == [h EXCEPT !.stop = TRUE, !.log = Append(@, "stop")]

\* matchengine.__exit__(None, None, None)
Exit(h) == [h EXCEPT !.exit = TRUE, !.log = Append(@, "exit")]

\* raise e
Raise(h, e) == [h EXCEPT !.exc = e, !.log = Append(@, "raise")]

\* except Exception as e: the propagating exception is caught
Catch(h) == [h EXCEPT !.caught = h.exc, !.exc = "none"]

\* a store call (or another collaborator) raising e
Throw(h, e) == [h EXCEPT !.exc = e]

(* ----------------------------- worker loop ----------------------------- *)
\* An exception that leaves a handler goes up through the worker loop and
\* terminates the run with that error as the cause.
WorkerLoopStopped(h) == h.stop \/ h.exc # "none"

\* the handler returned or raised: its effects on queue and loop become visible
Finish(w, h, task) ==
    /\ task_q' = h.q
    /\ unfinished_tasks' = h.u
    /\ join_released' = h.joined
    /\ exited' = h.exit
    /\ stopped' = WorkerLoopStopped(h)
    /\ pc' = [pc EXCEPT ![w] = IF h.exc # "none" \/ task.type = "PoisonPill"
                               THEN "ended" ELSE "idle"]
    /\ cur' = [cur EXCEPT ![w] = NoTask]
    /\ loc' = [loc EXCEPT ![w] = NewLoc]
    /\ inv' = [inv EXCEPT ![w] = NewInv]
    /\ last' = [task |-> task, caught |-> h.caught, escaped |-> h.exc, log |-> h.log,
                puts |-> h.puts]

\* the handler suspends at an await
Suspend(w, h, at, task) ==
    /\ task_q' = h.q
    /\ unfinished_tasks' = h.u
    /\ join_released' = h.joined
    /\ exited' = h.exit
    /\ stopped' = h.stop
    /\ pc' = [pc EXCEPT ![w] = at]
    /\ cur' = [cur EXCEPT ![w] = task]
    /\ inv' = [inv EXCEPT ![w] = [caught |-> h.caught, log |-> h.log]]
    /\ last' = last

\* a worker is at `await self._task_q.get()` and the head of the queue is of `kind`.
\* The workers are identical coroutines: of those waiting in get(), the one
\* with the lowest number is taken to be the one that is woken.
CanGet(w, kind) ==
    /\ ~stopped
    /\ pc[w] = "idle"
    /\ \A v \in Workers : v < w => pc[v] # "idle"
    /\ task_q # << >>
    /\ Head(task_q).type = kind

\* the context of a fresh invocation, the task taken off the queue
Fresh(w) ==
    [q |-> Tail(task_q), u |-> unfinished_tasks, joined |-> join_released,
     stop |-> stopped, exit |-> exited, exc |-> "none", caught |-> "none",
     log |-> << >>, puts |-> << >>]

\* a store error may be injected
CanFail == failures < MaxFailures

Injected(e) == failures' = IF e \in StoreErrors THEN failures + 1 ELSE failures

(* ------------------------ run_check_indices_task ----------------------- *)
RECURSIVE SetToSeq(_)
\* the order in which a Python set is iterated: some fixed order
SetToSeq(S) ==
    IF S = {} THEN << >>
    ELSE LET x == CHOOSE y \in S : TRUE IN << x >> \o SetToSeq(S \ {x})

\* if collection == "trial_match": collection = matchengine.trial_match_collection
ResolveCollection(collection) ==
    IF collection = "trial_match" THEN TrialMatchCollection ELSE collection

\* index_key = list(index['key'].to_dict().keys())[0], over list_indexes()
ExistingIndices(collection) == { key[1] : key \in indexes[collection] }

\* variant: every desired index is created, listed or not
IndicesToCreateAll(entry) == entry.desired

\* indices_to_create = set(desired_indices) - existing_indices
IndicesToCreate(entry) ==
    entry.desired \ ExistingIndices(ResolveCollection(entry.collection))

RECURSIVE PutAll(_, _)
PutAll(h, tasks) ==
    IF tasks = << >> THEN h
    ELSE PutAll(Put(h, Head(tasks), "enqueue"), Tail(tasks))

\* one iteration of the for loop over config['indices'], list_indexes succeeding
CheckCollection(h, entry) ==
    LET todo == SetToSeq(IndicesToCreate(entry))
    IN  PutAll(h, [i \in 1..Len(todo) |->
                      IndexUpdateTask(ResolveCollection(entry.collection), todo[i])])

RECURSIVE CheckCollections(_, _)
\* the first k iterations of the loop
CheckCollections(h, k) ==
    IF k = 0 THEN h
    ELSE CheckCollection(CheckCollections(h, k - 1), ConfigIndices[k])

\* variant: the transient branches ack before and after the re-enqueue
CheckIndicesExceptAckTwice(h0, task) ==
    LET h == Catch(h0)
    IN  IF IsAutoReconnect(h.caught) THEN TaskDone(Put(TaskDone(h), task, "requeue"))
        ELSE IF IsCursorNotFound(h.caught) THEN TaskDone(Put(TaskDone(h), task, "requeue"))
        ELSE Raise(LoopStop(Exit(h)), h.caught)

\* variant: the fatal branch stops the run and does not re-raise
CheckIndicesExceptSwallow(h0, task) ==
    LET h == Catch(h0)
    IN  IF IsAutoReconnect(h.caught) THEN TaskDone(Put(h, task, "requeue"))
        ELSE IF IsCursorNotFound(h.caught) THEN TaskDone(Put(h, task, "requeue"))
        ELSE LoopStop(Exit(h))

\* the except clause of run_check_indices_task
CheckIndicesExcept(h0, task) ==
    LET h == Catch(h0)
    IN  IF IsAutoReconnect(h.caught) THEN TaskDone(Put(h, task, "requeue"))
        ELSE IF IsCursorNotFound(h.caught) THEN TaskDone(Put(h, task, "requeue"))
        ELSE Raise(LoopStop(Exit(h)), h.caught)

\* the whole handler: list_indexes succeeds for the first k collections and
\* raises e at the next one (e = "none": every collection was listed)
CheckIndicesHandler(h, task, k, e) ==
    LET listed == CheckCollections(h, k)
        tried == IF e = "none" THEN TaskDone(listed) ELSE Throw(listed, e)
    IN  IF tried.exc = "none" THEN tried ELSE CheckIndicesExcept(tried, task)

run_check_indices_task(w) ==
    /\ CanGet(w, "CheckIndicesTask")
    /\ \E k \in 0..Len(ConfigIndices) :
       \E e \in IF k = Len(ConfigIndices) THEN {"none"}
                ELSE IF CanFail THEN StoreErrors ELSE {} :
          /\ Finish(w, CheckIndicesHandler(Fresh(w), Head(task_q), k, e), Head(task_q))
          /\ Injected(e)
    /\ UNCHANGED << aggVars, storeVars, workload, pills_sent >>

(* ------------------------ run_index_update_task ------------------------ *)
\* variant: the fatal branch only logs
IndexUpdateExceptNoStop(h0, task) ==
    LET h == Catch(h0)
    IN  IF IsAutoReconnect(h.caught) THEN TaskDone(Put(h, task, "requeue"))
        ELSE IF IsCursorNotFound(h.caught) THEN TaskDone(Put(h, task, "requeue"))
        ELSE h

\* the except clause of run_index_update_task
IndexUpdateExcept(h0, task) ==
    LET h == Catch(h0)
    IN  IF IsAutoReconnect(h.caught) THEN TaskDone(Put(h, task, "requeue"))
        ELSE IF IsCursorNotFound(h.caught) THEN TaskDone(Put(h, task, "requeue"))
        ELSE LoopStop(h)

\* create_index raising e, or succeeding (e = "none") and then task_done
IndexUpdateHandler(h, task, e) ==
    LET tried == IF e = "none" THEN TaskDone(h) ELSE Throw(h, e)
    IN  IF tried.exc = "none" THEN tried ELSE IndexUpdateExcept(tried, task)

\* db_rw[collection].create_index(index): a no-op when the index exists
CreateIndex(collection, index) ==
    [indexes EXCEPT ![collection] = @ \cup { << index >> }]

\* the try block is entered on `task = await get()`; create_index is awaited
IndexUpdateStart(w) ==
    /\ CanGet(w, "IndexUpdateTask")
    /\ Suspend(w, Fresh(w), "create_index", Head(task_q))
    /\ UNCHANGED << loc, aggVars, storeVars, failures, workload, pills_sent >>

\* create_index returns or raises; then the rest of the handler
run_index_update_task(w) ==
    /\ ~stopped
    /\ pc[w] = "create_index"
    /\ \E e \in {"none"} \cup (IF CanFail THEN StoreErrors ELSE {}) :
          /\ Finish(w, IndexUpdateHandler(Ctx(w), cur[w], e), cur[w])
          /\ indexes' = IF e = "none"
                        THEN CreateIndex(cur[w].collection, cur[w].index)
                        ELSE indexes
          /\ Injected(e)
    /\ UNCHANGED << aggVars, bulk_writes, run_log, ledger, workload, pills_sent >>

(* ---------------------------- run_query_task --------------------------- *)
\* what run_query may return: up to MaxResults match reasons, each for a sample
RECURSIVE SeqsUpTo(_, _)
SeqsUpTo(S, n) ==
    IF n = 0 THEN { << >> }
    ELSE LET shorter == SeqsUpTo(S, n - 1)
         IN  shorter \cup { Append(s, x) : s \in { t \in shorter : Len(t) = n - 1 }, x \in S }

QueryResults == SeqsUpTo(Samples, MaxResults)

\* create_trial_matches(TrialMatch(task.trial, ..., result, starttime))
CreateTrialMatches(task, results, i) ==
    [task |-> task.id, sample_id |-> results[i], reason |-> i]

\* variant: a failed query still hands results to the aggregation loop
ResultsOfKept(e) == QueryResults

\* results = await run_query(...), or results = list() in the except clause
ResultsOf(e) == IF e = "none" THEN QueryResults ELSE { << >> }

\* the first try block is entered on `task = await get()`; run_query is awaited
QueryStart(w) ==
    /\ CanGet(w, "QueryTask")
    /\ Suspend(w, Fresh(w), "run_query", Head(task_q))
    /\ UNCHANGED << loc, aggVars, storeVars, failures, workload, pills_sent >>

\* the except clause of the first try block (results = list())
QueryExcept(h0, task) ==
    LET h == Catch(h0)
    IN  IF IsAutoReconnect(h.caught) THEN TaskDone(Put(h, task, "requeue"))
        ELSE IF IsCursorNotFound(h.caught) THEN TaskDone(Put(h, task, "requeue"))
        ELSE LoopStop(h)

RECURSIVE AppendDocsOverwrite(_, _, _, _)
\* variant: the bucket is assigned, not appended to
AppendDocsOverwrite(m, task, results, n) ==
    IF n = 0 THEN m
    ELSE LET before == AppendDocsOverwrite(m, task, results, n - 1)
             doc == [task |-> task.id, sample_id |-> results[n], reason |-> n]
         IN  [before EXCEPT ![<< Protocol, doc.sample_id >>] = << doc >>]

RECURSIVE AppendDocs(_, _, _, _)
\* matches[protocol_no][sample_id].append(match_document) for results 1..n
AppendDocs(m, task, results, n) ==
    IF n = 0 THEN m
    ELSE LET before == AppendDocs(m, task, results, n - 1)
             doc == CreateTrialMatches(task, results, n)
         IN  [before EXCEPT ![<< Protocol, doc.sample_id >>] = Append(@, doc)]

\* the documents of results 1..n, in order
Docs(task, results, n) == [i \in 1..n |-> CreateTrialMatches(task, results, i)]

\* variant: the counter goes up once per task, not once per result
CountedPerTask(results, failAt) == 1

\* how many results the loop counts and how many it appends when
\* create_trial_matches raises at result failAt (0: it never raises)
Counted(results, failAt) == IF failAt = 0 THEN Len(results) ELSE failAt

Appended(results, failAt) == IF failAt = 0 THEN Len(results) ELSE failAt - 1

\* the second try block and the final task_done, for the queue and the loop
QueryAggregate(h, failAt) ==
    IF h.exc # "none" THEN h
    ELSE IF failAt # 0 THEN Raise(LoopStop([h EXCEPT !.caught = "Aggregation"]), "Aggregation")
    ELSE TaskDone(h)

\* run_query returned results (e = "none") or raised e; then the rest of the handler
QueryHandler(h, task, e, failAt) ==
    LET queried == IF e = "none" THEN h ELSE QueryExcept(Throw(h, e), task)
    IN  QueryAggregate(queried, failAt)

run_query_task(w) ==
    /\ ~stopped
    /\ pc[w] = "run_query"
    /\ \E e \in {"none"} \cup (IF CanFail THEN StoreErrors ELSE {}) :
       \E results \in ResultsOf(e) :
       \E failAt \in 0..Len(results) :
          /\ Finish(w, QueryHandler(Ctx(w), cur[w], e, failAt), cur[w])
          /\ queue_task_count' = queue_task_count + Counted(results, failAt)
          /\ matches' = AppendDocs(matches, cur[w], results, Appended(results, failAt))
          /\ produced' = IF e = "none" /\ failAt = 0
                         THEN [produced EXCEPT ![cur[w].id] = Docs(cur[w], results, Len(results))]
                         ELSE produced
          /\ Injected(e)
    /\ UNCHANGED << storeVars, workload, pills_sent >>

(* --------------------------- run_update_task --------------------------- *)
\* finally: matchengine.task_q.task_done().  An exception raised here replaces
\* the one that was propagating; otherwise that one goes on.
UpdateFinally(h) ==
    LET d == TaskDone([h EXCEPT !.exc = "none"])
    IN  IF d.exc = "none" THEN [d EXCEPT !.exc = h.exc] ELSE d

\* the except clause of run_update_task: only AutoReconnect is retried
UpdateExcept(h0, task) ==
    LET h == Catch(h0)
    IN  IF IsAutoReconnect(h.caught)
        THEN LET acked == TaskDone(h)
             IN  IF acked.exc = "none" THEN Put(acked, task, "requeue") ELSE acked
        ELSE Raise(h, h.caught)

\* bulk_write returned (e = "none") or raised e
UpdateHandler(h, task, e) ==
    UpdateFinally(IF e = "none" THEN h ELSE UpdateExcept(Throw(h, e), task))

UpdateStart(w) ==
    /\ CanGet(w, "UpdateTask")
    /\ Suspend(w, Fresh(w), "bulk_write", Head(task_q))
    /\ UNCHANGED << loc, aggVars, storeVars, failures, workload, pills_sent >>

run_update_task(w) ==
    /\ ~stopped
    /\ pc[w] = "bulk_write"
    /\ \E e \in {"none"} \cup (IF CanFail THEN StoreErrors ELSE {}) :
          /\ Finish(w, UpdateHandler(Ctx(w), cur[w], e), cur[w])
          /\ bulk_writes' = IF e = "none" THEN bulk_writes + 1 ELSE bulk_writes
          /\ Injected(e)
    /\ UNCHANGED << aggVars, indexes, run_log, ledger, workload, pills_sent >>

(* ----------------------- run_run_log_update_task ----------------------- *)
\* finally: matchengine.task_q.task_done()
RunLogFinally(h) ==
    LET d == TaskDone([h EXCEPT !.exc = "none"])
    IN  IF d.exc = "none" THEN [d EXCEPT !.exc = h.exc] ELSE d

\* the except clause of run_run_log_update_task: only AutoReconnect is retried
RunLogExcept(h0, task) ==
    LET h == Catch(h0)
    IN  IF IsAutoReconnect(h.caught)
        THEN LET acked == TaskDone(h)
             IN  IF acked.exc = "none" THEN Put(acked, task, "requeue") ELSE acked
        ELSE Raise(h, h.caught)

\* a store call of the try block raised e: except, then finally
RunLogFail(h, task, e) == RunLogFinally(RunLogExcept(Throw(h, e), task))

\* distinct("clinical_id") on the run-history collection
Distinct == { c \in ClinicalIds : ledger[c] # << >> }

\* new_clinical_run_log_docs
NewClinicalRunLogDocs(dont_need_insert) == ClinicalRunLogEntries \ dont_need_insert

\* bulk_write of InsertOne({"clinical_id": c, "run_history": []}) for each new id
InsertLedgerDocs(ids) ==
    [c \in ClinicalIds |-> IF c \in ids THEN Append(ledger[c], 0) ELSE ledger[c]]

\* variant: update_one, the push reaches one matching document only
PushRunIdOne ==
    LET first == CHOOSE c \in ClinicalIds :
                    c \in ClinicalRunLogEntries /\ ledger[c] # << >>
    IN  [ledger EXCEPT ![first][1] = @ + 1]

\* update_many({clinical_id: {$in: entries}}, {$push: {run_history: run_id}})
PushRunId ==
    [c \in ClinicalIds |->
        IF c \in ClinicalRunLogEntries
        THEN [i \in 1..Len(ledger[c]) |-> ledger[c][i] + 1]
        ELSE ledger[c]]

\* the staged inserts whose clinical id has a document by now
Conflicts(ids) == { c \in ids : ledger[c] # << >> }

\* what the store can answer to the staged inserts besides success and the
\* injected errors: with a unique index on clinical_id (none is created by
\* this code, the collection may carry one) the conflicting inserts fail and
\* bulk_write raises after the others were applied
BulkWriteRejections(ids) == IF Conflicts(ids) # {} THEN {BulkWriteError} ELSE {}

\* what the store can answer to insert_one of the run-log summary besides
\* success and the injected errors: the driver puts an _id into the dict it is
\* given, so an entry inserted before is rejected when it is the same dict
InsertOneRejections == IF run_log > 0 THEN {DuplicateKeyError} ELSE {}

\* where the handler suspends once both halves of the gather have returned
AfterGather(dont_need_insert) ==
    IF NewClinicalRunLogDocs(dont_need_insert) # {} THEN "ledger_bulk_write" ELSE "update_many"

RunLogStart(w) ==
    /\ CanGet(w, "RunLogUpdateTask")
    /\ Suspend(w, Fresh(w), "gather", Head(task_q))
    /\ loc' = [loc EXCEPT ![w] = NewLoc]
    /\ UNCHANGED << aggVars, storeVars, failures, workload, pills_sent >>

\* asyncio.gather, first half: distinct returns or raises
RunLogDistinct(w) ==
    /\ ~stopped
    /\ pc[w] = "gather"
    /\ ~loc[w].distinct_done
    /\ \E e \in {"none"} \cup (IF CanFail THEN StoreErrors ELSE {}) :
          /\ IF e = "none"
             THEN /\ loc' = [loc EXCEPT ![w].distinct_done = TRUE,
                                        ![w].dont_need_insert = Distinct]
                  /\ Suspend(w, Ctx(w), IF loc[w].insert_done
                                        THEN AfterGather(Distinct) ELSE "gather", cur[w])
             ELSE /\ Finish(w, RunLogFail(Ctx(w), cur[w], e), cur[w])
          /\ Injected(e)
    /\ UNCHANGED << aggVars, storeVars, workload, pills_sent >>

\* asyncio.gather, second half: insert_one of the run-log summary returns or raises
RunLogInsertOne(w) ==
    /\ ~stopped
    /\ pc[w] = "gather"
    /\ ~loc[w].insert_done
    /\ \E e \in {"none"} \cup (IF CanFail THEN StoreErrors ELSE {})
                     \cup InsertOneRejections :
          /\ IF e = "none"
             THEN /\ loc' = [loc EXCEPT ![w].insert_done = TRUE]
                  /\ run_log' = run_log + 1
                  /\ Suspend(w, Ctx(w), IF loc[w].distinct_done
                                        THEN AfterGather(loc[w].dont_need_insert)
                                        ELSE "gather", cur[w])
             ELSE /\ run_log' = run_log
                  /\ Finish(w, RunLogFail(Ctx(w), cur[w], e), cur[w])
          /\ Injected(e)
    /\ UNCHANGED << aggVars, indexes, bulk_writes, ledger, workload, pills_sent >>

\* the unordered bulk write of the staged ledger inserts returns or raises
RunLogBulkWrite(w) ==
    /\ ~stopped
    /\ pc[w] = "ledger_bulk_write"
    /\ \E e \in {"none"} \cup (IF CanFail THEN StoreErrors ELSE {})
                     \cup BulkWriteRejections(NewClinicalRunLogDocs(loc[w].dont_need_insert)) :
          /\ IF e = "none"
             THEN /\ ledger' = InsertLedgerDocs(NewClinicalRunLogDocs(loc[w].dont_need_insert))
                  /\ Suspend(w, Ctx(w), "update_many", cur[w])
                  /\ loc' = loc
             ELSE /\ ledger' = IF e = BulkWriteError
                                THEN InsertLedgerDocs(
                                        NewClinicalRunLogDocs(loc[w].dont_need_insert)
                                        \ Conflicts(NewClinicalRunLogDocs(loc[w].dont_need_insert)))
                                ELSE ledger
                  /\ Finish(w, RunLogFail(Ctx(w), cur[w], e), cur[w])
          /\ Injected(e)
    /\ UNCHANGED << aggVars, indexes, bulk_writes, run_log, workload, pills_sent >>

\* update_many returns or raises; then finally
RunLogUpdateMany(w) ==
    /\ ~stopped
    /\ pc[w] = "update_many"
    /\ \E e \in {"none"} \cup (IF CanFail THEN StoreErrors ELSE {}) :
          /\ IF e = "none"
             THEN /\ ledger' = PushRunId
                  /\ Finish(w, RunLogFinally(Ctx(w)), cur[w])
             ELSE /\ ledger' = ledger
                  /\ Finish(w, RunLogFail(Ctx(w), cur[w], e), cur[w])
          /\ Injected(e)
    /\ UNCHANGED << aggVars, indexes, bulk_writes, run_log, workload, pills_sent >>

(* --------------------------- run_poison_pill --------------------------- *)
PoisonPillHandler(h) == TaskDone(h)

\* the worker that takes a PoisonPill acks it and leaves its loop
run_poison_pill(w) ==
    /\ CanGet(w, "PoisonPill")
    /\ Finish(w, PoisonPillHandler(Fresh(w)), Head(task_q))
    /\ UNCHANGED << aggVars, storeVars, failures, workload, pills_sent >>

(* ------------------------------- driver -------------------------------- *)
RECURSIVE Pills(_)
Pills(n) == IF n = 0 THEN << >> ELSE Append(Pills(n - 1), PoisonPill)

\* drain() returned and the pool is quiet: shutdown() enqueues one PoisonPill
\* per worker
Shutdown ==
    /\ ~stopped
    /\ join_released
    /\ ~pills_sent
    /\ task_q = << >>
    /\ \A w \in Workers : pc[w] = "idle"
    /\ pills_sent' = TRUE
    /\ task_q' = task_q \o Pills(NumWorkers)
    /\ unfinished_tasks' = unfinished_tasks + NumWorkers
    /\ UNCHANGED << join_released, stopped, exited, pc, cur, inv, last, loc, aggVars, storeVars,
                    failures, workload >>

Next ==
    \/ \E w \in Workers : run_check_indices_task(w)
    \/ \E w \in Workers : IndexUpdateStart(w)
    \/ \E w \in Workers : run_index_update_task(w)
    \/ \E w \in Workers : QueryStart(w)
    \/ \E w \in Workers : run_query_task(w)
    \/ \E w \in Workers : UpdateStart(w)
    \/ \E w \in Workers : run_update_task(w)
    \/ \E w \in Workers : RunLogStart(w)
    \/ \E w \in Workers : RunLogDistinct(w)
    \/ \E w \in Workers : RunLogInsertOne(w)
    \/ \E w \in Workers : RunLogBulkWrite(w)
    \/ \E w \in Workers : RunLogUpdateMany(w)
    \/ \E w \in Workers : run_poison_pill(w)
    \/ Shutdown

Spec == Init /\ [][Next]_vars

(* ======================= properties of the handlers ==================== *)
\* how often an invocation's log holds the call ev
Count(ev, log) == Cardinality({ i \in 1..Len(log) : log[i] = ev })

\* the first place of ev in log (0: not there)
First(ev, log) ==
    IF \E i \in 1..Len(log) : log[i] = ev
    THEN CHOOSE i \in 1..Len(log) : log[i] = ev /\ \A j \in 1..(i - 1) : log[j] # ev
    ELSE 0

Ended(kinds) == last.task.type \in kinds

Transient == {"AutoReconnect", "CursorNotFound"}

\* some worker holds a task
Handling == \E w \in Workers : pc[w] \notin {"idle", "ended"}

\* C1: every invocation of the UpdateTask and RunLogUpdateTask handlers calls
\* task_done exactly once, whether the store calls succeeded, a transient
\* error made it re-enqueue the task, or another error was propagated.
C1_UpdateAcksOnce ==
    Ended({"UpdateTask", "RunLogUpdateTask"}) => Count("task_done", last.log) = 1

\* C2: every invocation of the QueryTask handler calls task_done exactly once:
\* when the query succeeded and aggregation completed, when the query failed
\* transiently and the task was re-enqueued, and when the query failed with
\* another error and the handler went on with an empty result set.
C2_QueryAcksOnce ==
    (Ended({"QueryTask"}) /\ last.caught # "Aggregation")
        => Count("task_done", last.log) = 1

\* C3: every invocation of the CheckIndicesTask and IndexUpdateTask handlers
\* calls task_done exactly once on the success path and exactly once on the
\* transient-error path, and there the re-enqueue of the same task comes
\* before that call.
C3_IndexHandlersAckOnce ==
    (Ended({"CheckIndicesTask", "IndexUpdateTask"}) /\ last.caught # "Other")
        => /\ Count("task_done", last.log) = 1
           /\ last.caught \in Transient
                => /\ Count("requeue", last.log) = 1
                   /\ First("requeue", last.log) < First("task_done", last.log)
                   /\ last.escaped = "none"

\* a CheckIndicesTask failed transiently after it had enqueued an
\* IndexUpdateTask, re-enqueued itself and acked
C3_Witness ==
    /\ Ended({"CheckIndicesTask"})
    /\ last.caught = "AutoReconnect"
    /\ Count("enqueue", last.log) >= 1
    /\ Count("task_done", last.log) = 1
    /\ \E i \in 1..Len(task_q) : task_q[i] = last.task

\* C4: whenever the outstanding count is zero (join() is released), no task is
\* in the queue, being handled, or still to be re-enqueued.
C4_NoFalseDrain ==
    (join_released /\ unfinished_tasks = 0) => (task_q = << >> /\ ~Handling)

\* C5 (scenario C): a single UpdateTask whose bulk write fails transiently on
\* the first attempt and succeeds on the second: when join() has completed the
\* store holds exactly one successful bulk write, the outstanding count is
\* zero, and no task_done was ever called on a zero count.
ScenarioC ==
    /\ workload = << MkTask("UpdateTask", 1) >>
    /\ failures = 1
    /\ last.caught \in {"AutoReconnect", "none"}
    /\ ~pills_sent

C5_RetriedUpdateDrains ==
    ScenarioC => /\ join_released => (bulk_writes = 1 /\ unfinished_tasks = 0)
                 /\ Count("ValueError", last.log) = 0

\* C6: in all five handlers a caught AutoReconnect and a caught CursorNotFound
\* are both transient: the handler re-enqueues the identical task, nothing is
\* raised out of it and the pool is not stopped; any other caught error is fatal.
C6_SameClassification ==
    Ended({"CheckIndicesTask", "IndexUpdateTask", "QueryTask", "UpdateTask",
           "RunLogUpdateTask"})
        => /\ last.caught \in Transient
                => /\ Count("requeue", last.log) = 1
                   /\ \E i \in 1..Len(task_q) : task_q[i] = last.task
                   /\ last.escaped = "none"
                   /\ ~stopped
           /\ last.caught \notin (Transient \cup {"none"})
                => Count("requeue", last.log) = 0

\* the invocation that ended last took the fatal path: an exception left the
\* handler, or it caught an error and did not re-enqueue the task
FatalEnded ==
    /\ last.task.type # "none"
    /\ \/ last.escaped # "none"
       \/ last.caught # "none" /\ Count("requeue", last.log) = 0

C8_Original ==
    last.caught = "Other"
        => /\ Ended({"IndexUpdateTask", "CheckIndicesTask"}) => last.escaped = "none"
           /\ Ended({"QueryTask", "UpdateTask", "RunLogUpdateTask"}) => last.escaped # "none"

\* C8 as amended: on a fatal error the IndexUpdateTask handler and the
\* QueryTask handler (error raised by the query) stop the run and do not
\* re-raise it; the CheckIndicesTask handler stops the run and re-raises it;
\* the UpdateTask and RunLogUpdateTask handlers let an exception leave the
\* handler; an error of the QueryTask handler's aggregation phase is re-raised.
C8_PropagationByHandler ==
    /\ last.caught \in {"Other", "ValueError"}
        => /\ Ended({"IndexUpdateTask"})
                => (last.escaped = "none" /\ Count("stop", last.log) = 1)
           /\ Ended({"QueryTask"})
                => (Count("raise", last.log) = 0 /\ Count("stop", last.log) = 1)
           /\ Ended({"CheckIndicesTask"})
                => (last.escaped = last.caught /\ Count("stop", last.log) = 1)
           /\ Ended({"UpdateTask", "RunLogUpdateTask"}) => last.escaped # "none"
    /\ last.caught = "Aggregation"
        => (last.escaped = "Aggregation" /\ Count("stop", last.log) = 1)

\* a CheckIndicesTask caught a fatal error and raised it to its caller
C8_Witness ==
    /\ Ended({"CheckIndicesTask"})
    /\ last.caught = "Other"
    /\ last.escaped = "Other"
    /\ stopped

\* C9: after an error in a QueryTask's aggregation phase the stop signal is
\* set, the error has left the handler, the task was not acked, and so the
\* outstanding count is not zero and join() has not completed (the pool being
\* stopped, that stays so).
C9_AggregationErrorBlocksJoin ==
    last.caught = "Aggregation"
        => /\ stopped
           /\ last.escaped = "Aggregation"
           /\ Count("task_done", last.log) = 0
           /\ unfinished_tasks > 0
           /\ ~join_released

\* the documents of docs that belong to bucket key
CountKey(docs, key) == Cardinality({ i \in 1..Len(docs) : docs[i].sample_id = key[2] })

RECURSIVE SumProduced(_, _)
\* over tasks 1..n: the documents their successful attempts produced for key
SumProduced(n, key) ==
    IF n = 0 THEN 0 ELSE CountKey(produced[n], key) + SumProduced(n - 1, key)

\* every QueryTask has completed and nothing fatal happened
QueriesCompleted ==
    /\ ~stopped
    /\ \A i \in 1..Len(task_q) : task_q[i].type # "QueryTask"
    /\ \A w \in Workers : cur[w].type # "QueryTask"

IsPrefix(s, t) == Len(s) <= Len(t) /\ SubSeq(t, 1, Len(s)) = s

\* C10: once all QueryTasks have completed without a fatal error, every
\* bucket is as long as the sum of what each task's successful attempt
\* produced for it, whatever the interleaving; and no step removes or
\* reorders what a bucket already holds.
C10_NoAppendLost ==
    /\ [](QueriesCompleted
            => \A key \in Keys : Len(matches[key]) = SumProduced(Len(workload), key))
    /\ [][\A key \in Keys : IsPrefix(matches[key], matches'[key])]_vars

\* two QueryTasks ran concurrently, the second returned first, and both
\* documents are in the same bucket
C10_Witness ==
    /\ QueriesCompleted
    /\ Len(matches[<< Protocol, "s1" >>]) = 2
    /\ matches[<< Protocol, "s1" >>][1].task = 2
    /\ matches[<< Protocol, "s1" >>][2].task = 1


(* ---------------------------------- C11 -------------------------------- *)
\* the IndexUpdateTasks the configuration asks for and the store lacks
MissingIndexTasks ==
    UNION { { IndexUpdateTask(IF ConfigIndices[k].collection = "trial_match"
                              THEN TrialMatchCollection
                              ELSE ConfigIndices[k].collection, i) :
              i \in { d \in ConfigIndices[k].desired :
                        \A key \in indexes[IF ConfigIndices[k].collection = "trial_match"
                                           THEN TrialMatchCollection
                                           ELSE ConfigIndices[k].collection] :
                           key[1] # d } } :
            k \in 1..Len(ConfigIndices) }

\* the step of a CheckIndicesTask handler that meets no error
CheckIndicesRan ==
    /\ task_q # << >>
    /\ Head(task_q).type = "CheckIndicesTask"
    /\ pc' = pc
    /\ loc' = loc
    /\ last'.task.type = "CheckIndicesTask"
    /\ last'.caught = "none"

\* C11: a CheckIndicesTask that runs without error enqueues, for every
\* configured collection (the alias "trial_match" resolved to the run's
\* match-document collection), exactly one IndexUpdateTask(collection, index)
\* for each desired index the store lacks and none for any other index, and
\* it writes nothing to the store.
C11_EnqueuesMissingIndexes ==
    /\ [](Ended({"CheckIndicesTask"}) /\ last.caught = "none" =>
            /\ { last.puts[i] : i \in 1..Len(last.puts) } = MissingIndexTasks
            /\ Len(last.puts) = Cardinality(MissingIndexTasks))
    /\ [][CheckIndicesRan => UNCHANGED storeVars]_vars

\* a CheckIndicesTask ran without error: patient has its desired index, the
\* match collection (reached through the alias) lacks sample_id, its compound
\* index leading with protocol_no
C11_Witness ==
    /\ Ended({"CheckIndicesTask"})
    /\ last.caught = "none"
    /\ last.puts = << IndexUpdateTask(TrialMatchCollection, "sample_id") >>
    /\ task_q # << >>
    /\ task_q[Len(task_q)].type = "IndexUpdateTask"


(* ---------------------------------- C12 -------------------------------- *)
\* C12: with RunLogUpdateTask handlers of the same trial running
\* concurrently, under every interleaving of their store round-trips the
\* ledger never holds two ledger documents with the same clinical id.
C12_OneLedgerDocPerClinicalId ==
    \A c \in ClinicalIds : Len(ledger[c]) <= 1


(* ---------------------------------- C13 -------------------------------- *)
\* every clinical id of the trial has a ledger document holding the run id
RunIdAppended ==
    \A c \in ClinicalRunLogEntries : \E i \in 1..Len(ledger[c]) : ledger[c][i] >= 1

\* C13: a duplicate-key failure of individual inserts in the staged unordered
\* bulk write is tolerated: the handler does not treat it as an error, still
\* appends the run id to the run histories and completes normally.
C13_DuplicateKeyTolerated ==
    (Ended({"RunLogUpdateTask"}) /\ last.caught = BulkWriteError) =>
        /\ last.escaped = "none"
        /\ ~stopped
        /\ RunIdAppended


(* ---------------------------------- C14 -------------------------------- *)
\* the instances of task t that are in the queue or in a worker's hands
Instances(t) ==
    Cardinality({ i \in 1..Len(task_q) : task_q[i] = t })
      + Cardinality({ w \in Workers : cur[w] = t })

\* C14: transient retries neither lose nor duplicate a work item: an attempt
\* that fails transiently puts exactly one copy of the identical task back on
\* the queue, so a task has never more than one instance in the queue or in a
\* handler, and its instance goes away only with an attempt that did not fail
\* transiently.
C14_RetriesKeepOneInstance ==
    /\ [](\A i \in 1..Len(workload) : Instances(workload[i]) <= 1)
    /\ [](Ended({"CheckIndicesTask", "QueryTask", "UpdateTask"})
            /\ last.caught \in Transient =>
                Cardinality({ i \in 1..Len(last.puts) : last.puts[i] = last.task }) = 1)
    /\ [][\A i \in 1..Len(workload) :
            (Instances(workload[i]) = 1 /\ Instances(workload[i])' = 0) =>
                (last'.task = workload[i] /\ last'.caught \notin Transient)]_vars


(* ---------------------------------- C15 -------------------------------- *)
\* the documents of task i in bucket key
DocsOf(i, key) ==
    Cardinality({ j \in 1..Len(matches[key]) : matches[key][j].task = i })

\* worker w's QueryTask attempt ends in this step, its query having failed
QueryFailed(w) ==
    /\ pc[w] = "run_query"
    /\ pc'[w] # "run_query"
    /\ last'.task = cur[w]
    /\ last'.caught \in StoreErrors

\* C15: a QueryTask attempt whose query fails, transiently or fatally, leaves
\* matches and the task count unchanged; a QueryTask that fails transiently
\* and then succeeds has its documents in matches exactly once (as long as no
\* aggregation error cut an attempt short).
C15_FailedQueryChangesNothing ==
    /\ [][\A w \in Workers :
            QueryFailed(w) => UNCHANGED << matches, queue_task_count >>]_vars
    /\ [](last.caught # "Aggregation" =>
            \A i \in 1..Len(workload) : \A key \in Keys :
                workload[i].type = "QueryTask" =>
                    DocsOf(i, key) = CountKey(produced[i], key))

\* the only task is a QueryTask; its query failed once, was retried, and the
\* retry returned a match
C15_Witness ==
    /\ workload = << MkTask("QueryTask", 1) >>
    /\ failures = 1
    /\ Ended({"QueryTask"})
    /\ last.caught = "none"
    /\ produced[1] # << >>
    /\ \E key \in Keys : DocsOf(1, key) = 1
    /\ queue_task_count = 1


(* ---------------------------------- C16 -------------------------------- *)
\* worker w's RunLogUpdateTask completes in this step without an error
RunLogCompleted(w) ==
    /\ pc[w] = "update_many"
    /\ pc'[w] = "idle"
    /\ last'.task = cur[w]
    /\ last'.caught = "none"
    /\ last'.escaped = "none"

\* C16: when a RunLogUpdateTask completes without error, every clinical id of
\* the trial has a ledger document and the run history of its documents holds
\* the current run id: of the documents that were there before, of those this
\* handler inserted and of those another handler inserted meanwhile.
C16_RunIdInEveryLedger ==
    [][\A w \in Workers :
         RunLogCompleted(w) =>
            \A c \in ClinicalRunLogEntries :
               /\ ledger'[c] # << >>
               /\ \A i \in 1..Len(ledger'[c]) : ledger'[c][i] >= 1]_vars

\* a RunLogUpdateTask has completed whose distinct call saw the document
\* another handler, still waiting for its update_many, had inserted for c1
C16_Witness ==
    /\ Ended({"RunLogUpdateTask"})
    /\ last.caught = "none"
    /\ last.escaped = "none"
    /\ \E w \in Workers : pc[w] = "update_many" /\ loc[w].dont_need_insert = {"c2"}
    /\ ledger["c1"] = << 1 >>
    /\ ledger["c2"] = << 1 >>


(* ---------------------------------- C17 -------------------------------- *)
RECURSIVE TotalMatches(_)
\* the number of match documents in the buckets of keys
TotalMatches(keys) ==
    IF keys = {} THEN 0
    ELSE LET key == CHOOSE k \in keys : TRUE
         IN  Len(matches[key]) + TotalMatches(keys \ {key})

\* C17: the task count never decreases, and as long as no aggregation-phase
\* error has occurred it equals the total number of match documents in
\* matches, under any interleaving and any number of transient retries (the
\* aggregation loop does not suspend, so no handler is ever seen inside it).
C17_CountMatchesDocuments ==
    /\ [][queue_task_count' >= queue_task_count]_vars
    /\ [](last.caught # "Aggregation" => queue_task_count = TotalMatches(Keys))

\* two QueryTasks, one of them retried after a transient failure, have both
\* appended a document
C17_Witness ==
    /\ failures = 1
    /\ Ended({"QueryTask"})
    /\ last.caught = "none"
    /\ \A i \in 1..Len(workload) : workload[i].type = "QueryTask"
    /\ queue_task_count = 2
    /\ TotalMatches(Keys) = 2


(* ---------------------------------- C18 -------------------------------- *)
\* the (collection, index) pairs of the configuration, alias resolved
ConfiguredIndexTasks ==
    UNION { { IndexUpdateTask(ResolveCollection(ConfigIndices[k].collection), i) :
                i \in ConfigIndices[k].desired } : k \in 1..Len(ConfigIndices) }

\* the run was given a single CheckIndicesTask
OneCheckIndicesTask ==
    Cardinality({ i \in 1..Len(workload) : workload[i].type = "CheckIndicesTask" }) = 1

OneRunLogUpdateTask ==
    Cardinality({ i \in 1..Len(workload) : workload[i].type = "RunLogUpdateTask" }) = 1

\* C19: a RunLogUpdateTask that fails transiently after its insert of the
\* run-log summary succeeded, and is retried, leaves exactly one run-log
\* summary document for the trial and run, and the retry does not fail
\* because of the earlier insert.
C19_RetryKeepsOneSummary ==
    OneRunLogUpdateTask =>
        /\ run_log <= 1
        /\ ~(Ended({"RunLogUpdateTask"}) /\ last.caught = DuplicateKeyError)

=============================================================================
